---- MODULE Spec2Model ----
(***************************************************************************)
(* A model of the clog logging library (Moonstroke/C-log): the process-wide *)
(* destination state, its setters, initialisation and termination, and the  *)
(* dispatch vlogmsg with its four renderers.                                *)
(*                                                                          *)
(* Strings written to a stream are kept as TLA+ strings; a format string is *)
(* a sequence of one-character strings so that the code's pointer           *)
(* arithmetic and character tests can be followed.                          *)
(* The escape character 0x1b is written "\\x1b" in the colour sequences.    *)
(***************************************************************************)
EXTENDS Integers, Sequences, FiniteSets, TLC

(***************************************************************************)
(* Enumerations of the public header.                                       *)
(***************************************************************************)
CLOG_TRACE == 0
CLOG_DEBUG == 1
CLOG_VERBOSE == 2
CLOG_INFO == 3
CLOG_NOTICE == 4
CLOG_WARNING == 5
CLOG_ERROR == 6
CLOG_FATAL == 7
CLOG_FILTER_ALL == CLOG_DEBUG
CLOG_FILTER_NONE == CLOG_FATAL
LogLevel == CLOG_TRACE .. CLOG_FATAL

CLOG_ATTR_MINIMAL == 0
CLOG_ATTR_TIME == 1
CLOG_ATTR_FILE == 2
CLOG_ATTR_FUNC == 4
CLOG_ATTR_COLORED == 16
CLOG_ATTR_VERBOSE == CLOG_ATTR_TIME + CLOG_ATTR_FILE + CLOG_ATTR_FUNC
\* every OR-combination of the four attribute bits
OutputAttribute ==
    { t + f + g + c : t \in {0, CLOG_ATTR_TIME}, f \in {0, CLOG_ATTR_FILE},
                      g \in {0, CLOG_ATTR_FUNC}, c \in {0, CLOG_ATTR_COLORED} }

CLOG_FORMAT_TEXT == "CLOG_FORMAT_TEXT"
CLOG_FORMAT_XML == "CLOG_FORMAT_XML"
CLOG_FORMAT_CSV == "CLOG_FORMAT_CSV"
CLOG_FORMAT_JSON == "CLOG_FORMAT_JSON"
OutputFormat == {CLOG_FORMAT_TEXT, CLOG_FORMAT_XML, CLOG_FORMAT_CSV, CLOG_FORMAT_JSON}

CLOG_INIT_TRUNCATE == "CLOG_INIT_TRUNCATE"
CLOG_INIT_APPEND == "CLOG_INIT_APPEND"
InitMode == {CLOG_INIT_TRUNCATE, CLOG_INIT_APPEND}

\* the null pointer, the standard error stream, and a stream the caller opened
NULL == "NULL"
stderr == "stderr"
UserStream == "user"
\* the FILE objects fopen can hand out, in the order it hands them out
FileHandles == <<"file1", "file2">>

DO_LOCK == 1
DO_UNLOCK == 0

(***************************************************************************)
(* Bounds of the model.                                                     *)
(***************************************************************************)
\* how many fclose calls a behaviour may make
MaxClose == 2
\* the longest string the blank test is tried on
MaxBlankLen == 3

\* caller threads
MainThread == "t1"
Threads == {"t1", "t2"}

\* the call site captured by the level-named macros
CallSites == { [file |-> "test.c", line |-> 46, func |-> "main"] }
\* what the wall clock can read when a record is rendered, as the broken-down
\* local time
Clock ==
    { [tm_hour |-> 15, tm_min |-> 36, tm_sec |-> 23],
      [tm_hour |-> 9, tm_min |-> 5, tm_sec |-> 0] }

\* messages: a format string and its variadic arguments
Msg(f, a) == [fmt |-> f, args |-> a]
Messages ==
    { Msg(<<>>, <<>>),
      Msg(<<"\n">>, <<>>),
      Msg(<<"\t", "\n", "\f", "\r", " ">>, <<>>),
      Msg(<<"a">>, <<>>),
      Msg(<<"\n", "a">>, <<>>),
      Msg(<<"\n", "\n", "a">>, <<>>),
      Msg(<<" ", "a", "\n">>, <<>>),
      Msg(<<"%", "d", "%", "%">>, <<91>>) }

(***************************************************************************)
(* The program's state.                                                     *)
(***************************************************************************)
VARIABLES
    _initmode,      \* static InitMode _initmode
    _logfile,       \* static FILE *_logfile
    _outputfmt,     \* static OutputFormat _outputfmt
    _outputattrs,   \* static OutputAttribute _outputattrs
    _filterlevel,   \* static LogLevel _filterlevel
    _json1stmsg,    \* static bool _json1stmsg
    _lockfuncs,     \* static void (*_lockfuncs[])(void*)
    _lockuserdata,  \* static void *_lockuserdata
    pc,             \* where each thread is in the call it is making
    cur,            \* the arguments and locals of that call
    out,            \* the stdio write calls of the calls in progress, in order
    hooks,          \* the hook invocations of the calls in progress, in order
    mutex,          \* the holder of the mutex the installed hooks operate
    opened,         \* FILE objects fopen has returned
    fclosed         \* the streams passed to fclose, in order

vars == <<_initmode, _logfile, _outputfmt, _outputattrs, _filterlevel,
          _json1stmsg, _lockfuncs, _lockuserdata, pc, cur, out, hooks, mutex,
          opened, fclosed>>

\* the destination state
dest == <<_initmode, _logfile, _outputfmt, _outputattrs, _filterlevel,
          _json1stmsg, _lockfuncs, _lockuserdata>>

\* a call record: the arguments and locals of the call a thread is making
\* (msg is the format string as passed, fmt the pointer the dispatch advances,
\* f the stream an initialisation works on, entry the stream the dispatch
\* read in its test for an unset stream, tm the time the renderer read from
\* the clock, ret the value returned)
NoCall ==
    [op |-> "none", file |-> "", line |-> 0, func |-> "", lvl |-> 0,
     msg |-> <<>>, fmt |-> <<>>, args |-> <<>>, f |-> NULL, m |-> "",
     ofmt |-> "", a |-> 0, entry |-> NULL,
     tm |-> [tm_hour |-> 0, tm_min |-> 0, tm_sec |-> 0], ret |-> "void"]

Init ==
    /\ _initmode = CLOG_INIT_TRUNCATE
    /\ _logfile = NULL
    /\ _outputfmt = CLOG_FORMAT_TEXT
    /\ _outputattrs = CLOG_ATTR_MINIMAL
    /\ _filterlevel = CLOG_FILTER_ALL
    /\ _json1stmsg = FALSE
    /\ _lockfuncs = [i \in {DO_LOCK, DO_UNLOCK} |-> NULL]
    /\ _lockuserdata = NULL
    /\ pc = [t \in Threads |-> "idle"]
    /\ cur = [t \in Threads |-> NoCall]
    /\ out = <<>>
    /\ hooks = <<>>
    /\ mutex = "none"
    /\ opened = {}
    /\ fclosed = <<>>

(***************************************************************************)
(* Helpers: C operators, stdio conversions, the static tables.              *)
(***************************************************************************)
\* a & flag, for a one-bit flag
BitAnd(a, flag) == IF (a \div flag) % 2 = 1 THEN flag ELSE 0

\* C truth of an integer
Truthy(n) == n # 0

\* the character codes the locale-free test _is_space compares (backspace,
\* vertical tab, shift out and unit separator are written "\\b", "\\v",
\* "\\x0e" and "\\x1f")
CharCode(c) ==
    CASE c = "\\b" -> 8
      [] c = "\t" -> 9
      [] c = "\n" -> 10
      [] c = "\\v" -> 11
      [] c = "\f" -> 12
      [] c = "\r" -> 13
      [] c = "\\x0e" -> 14
      [] c = "\\x1f" -> 31
      [] c = " " -> 32
      [] c = "!" -> 33
      [] c = "%" -> 37
      [] c = "a" -> 97
      [] c = "b" -> 98
      [] c = "d" -> 100
      [] c = "m" -> 109
      [] c = "o" -> 111

\* the upper end of the range off by one: carriage return is not a space
_is_space_narrow(c) == (9 <= CharCode(c) /\ CharCode(c) < 13) \/ c = " "

_is_space(c) == (9 <= CharCode(c) /\ CharCode(c) <= 13) \/ c = " "

\* only the first character tested
_msgblank_head(msg) == msg = <<>> \/ _is_space(Head(msg))

RECURSIVE _msgblank(_)
_msgblank(msg) ==
    IF msg # <<>> /\ _is_space(Head(msg)) THEN _msgblank(Tail(msg)) ELSE msg = <<>>

\* the bytes of a C string
RECURSIVE CStr(_)
CStr(s) == IF s = <<>> THEN "" ELSE Head(s) \o CStr(Tail(s))

Digit(d) == <<"0", "1", "2", "3", "4", "5", "6", "7", "8", "9">>[d + 1]

\* printf's %u and %d of a non-negative number
RECURSIVE UDec(_)
UDec(n) == IF n < 10 THEN Digit(n) ELSE UDec(n \div 10) \o Digit(n % 10)

\* printf's %s: glibc prints (null) for a null pointer
PrintS(s) == IF s = NULL THEN "(null)" ELSE s

\* the field width ignored
PadRight_unpadded(s, w) == s

\* printf's %-Ns: left-justified in a field of w characters
RECURSIVE PadRight(_, _)
PadRight(s, w) == IF Len(s) >= w THEN s ELSE PadRight(s \o " ", w)

\* vfprintf: the directives %d and %% are interpreted, other bytes copied
RECURSIVE vfprintf(_, _)
vfprintf(fmt, args) ==
    IF fmt = <<>> THEN ""
    ELSE IF Head(fmt) = "%" /\ Len(fmt) >= 2 /\ fmt[2] = "%"
         THEN "%" \o vfprintf(Tail(Tail(fmt)), args)
    ELSE IF Head(fmt) = "%" /\ Len(fmt) >= 2 /\ fmt[2] = "d" /\ args # <<>>
         THEN UDec(Head(args)) \o vfprintf(Tail(Tail(fmt)), Tail(args))
    ELSE Head(fmt) \o vfprintf(Tail(fmt), args)

_levelnames(lvl) ==
    CASE lvl = CLOG_DEBUG -> "DEBUG"
      [] lvl = CLOG_VERBOSE -> "VERBOSE"
      [] lvl = CLOG_INFO -> "INFO"
      [] lvl = CLOG_NOTICE -> "NOTICE"
      [] lvl = CLOG_WARNING -> "WARNING"
      [] lvl = CLOG_ERROR -> "ERROR"
      [] lvl = CLOG_FATAL -> "FATAL"
      [] OTHER -> NULL

_colorcodes(lvl) ==
    CASE lvl = CLOG_DEBUG -> "34"
      [] lvl = CLOG_VERBOSE -> "36"
      [] lvl = CLOG_INFO -> "32"
      [] lvl = CLOG_NOTICE -> "33"
      [] lvl = CLOG_WARNING -> "35"
      [] lvl = CLOG_ERROR -> "31"
      [] lvl = CLOG_FATAL -> "1;31"
      [] OTHER -> NULL

_modes(m) == IF m = CLOG_INIT_TRUNCATE THEN "w" ELSE "a"

\* one stdio write call of thread t on stream f: its bytes, piece by piece
Emit(t, f, toks) == out \o [i \in 1 .. Len(toks) |-> [by |-> t, f |-> f, s |-> toks[i]]]

RECURSIVE Bytes(_)
Bytes(w) == IF w = <<>> THEN "" ELSE Head(w).s \o Bytes(Tail(w))

\* what thread t has written in the call it is making
WritesOf(t) == SelectSeq(out, LAMBDA e : e.by = t)
Written(t) == Bytes(WritesOf(t))

\* the entries of a window that are not thread t's
Others(w, t) == SelectSeq(w, LAMBDA e : e.by # t)

(***************************************************************************)
(* The renderers: the pieces each writes before the message (its header)    *)
(* and after it (its terminator).                                           *)
(***************************************************************************)
\* strftime's %H, %M and %S: two decimal digits
TwoDigits(n) == Digit(n \div 10) \o Digit(n % 10)

\* strftime(s, 9, "%H:%M:%S", localtime(&t))
_printtime(tm) ==
    TwoDigits(tm.tm_hour) \o ":" \o TwoDigits(tm.tm_min) \o ":" \o TwoDigits(tm.tm_sec)

BEGIN_COLOR(lvl) == "\\x1b[" \o PrintS(_colorcodes(lvl)) \o "m"
END_COLORS == "\\x1b[0m"

When(c, toks) == IF c THEN toks ELSE <<>>

\* the function part written before the file part
_vlogmsg_text_header_swapped(file, line, func, lvl, tm) ==
    When(Truthy(BitAnd(_outputattrs, CLOG_ATTR_COLORED)), <<BEGIN_COLOR(lvl)>>)
    \o When(Truthy(BitAnd(_outputattrs, CLOG_ATTR_TIME)),
            <<"[" \o _printtime(tm) \o "] ">>)
    \o When(Truthy(BitAnd(_outputattrs, CLOG_ATTR_FUNC)), <<func \o "() ">>)
    \o When(Truthy(BitAnd(_outputattrs, CLOG_ATTR_FILE)),
            <<file \o ":" \o UDec(line)>>
            \o When(Truthy(BitAnd(_outputattrs, CLOG_ATTR_FUNC)), <<",">>)
            \o <<" ">>)
    \o <<PadRight(PrintS(_levelnames(lvl)), 7) \o " -- ">>
    \o When(Truthy(BitAnd(_outputattrs, CLOG_ATTR_COLORED)), <<END_COLORS>>)

_vlogmsg_text_header(file, line, func, lvl, tm) ==
    When(Truthy(BitAnd(_outputattrs, CLOG_ATTR_COLORED)), <<BEGIN_COLOR(lvl)>>)
    \o When(Truthy(BitAnd(_outputattrs, CLOG_ATTR_TIME)),
            <<"[" \o _printtime(tm) \o "] ">>)
    \o When(Truthy(BitAnd(_outputattrs, CLOG_ATTR_FILE)),
            <<file \o ":" \o UDec(line)>>
            \o When(Truthy(BitAnd(_outputattrs, CLOG_ATTR_FUNC)), <<",">>)
            \o <<" ">>)
    \o When(Truthy(BitAnd(_outputattrs, CLOG_ATTR_FUNC)), <<func \o "() ">>)
    \o <<PadRight(PrintS(_levelnames(lvl)), 7) \o " -- ">>
    \o When(Truthy(BitAnd(_outputattrs, CLOG_ATTR_COLORED)), <<END_COLORS>>)

\* the record left without its line feed
_vlogmsg_text_end_open == <<>>

_vlogmsg_text_end == <<"\n">>

_vlogmsg_xml_header(file, line, func, lvl, tm) ==
    <<"\t<message ">>
    \o When(Truthy(BitAnd(_outputattrs, CLOG_ATTR_TIME)),
            <<"time=\"" \o _printtime(tm) \o "\" ">>)
    \o When(Truthy(BitAnd(_outputattrs, CLOG_ATTR_FILE)),
            <<"file=\"" \o file \o "\" line=\"" \o UDec(line) \o "\" ">>)
    \o When(Truthy(BitAnd(_outputattrs, CLOG_ATTR_FUNC)),
            <<"func=\"" \o func \o "\" ">>)
    \o <<"level=\"" \o PrintS(_levelnames(lvl)) \o "\">">>

_vlogmsg_xml_end == <<"</message>\n">>

\* the tab that ends a column is kept as a piece of its own
_vlogmsg_csv_header(file, line, func, lvl, tm) ==
    When(Truthy(BitAnd(_outputattrs, CLOG_ATTR_TIME)), <<_printtime(tm), "\t">>)
    \o When(Truthy(BitAnd(_outputattrs, CLOG_ATTR_FILE)),
            <<file, "\t", UDec(line), "\t">>)
    \o When(Truthy(BitAnd(_outputattrs, CLOG_ATTR_FUNC)), <<func, "\t">>)
    \o <<PrintS(_levelnames(lvl)), "\t">>

_vlogmsg_csv_end == <<"\n">>

\* the separating comma written before every record, the first included
_vlogmsg_json_header_comma(file, line, func, lvl, tm) ==
    <<",", "\n\t\t{\n">>
    \o When(Truthy(BitAnd(_outputattrs, CLOG_ATTR_TIME)),
            <<"\t\t\t\"time\": \"" \o _printtime(tm) \o "\",\n">>)
    \o When(Truthy(BitAnd(_outputattrs, CLOG_ATTR_FILE)),
            <<"\t\t\t\"file\": \"" \o file \o "\",\n\t\t\t\"line\": "
              \o UDec(line) \o ",\n">>)
    \o When(Truthy(BitAnd(_outputattrs, CLOG_ATTR_FUNC)),
            <<"\t\t\t\"func\": \"" \o func \o "\",\n">>)
    \o <<"\t\t\t\"level\": \"" \o PrintS(_levelnames(lvl)) \o "\",\n">>
    \o <<"\t\t\t\"msg: \"">>

_vlogmsg_json_header(file, line, func, lvl, tm) ==
    When(~_json1stmsg, <<",">>)
    \o <<"\n\t\t{\n">>
    \o When(Truthy(BitAnd(_outputattrs, CLOG_ATTR_TIME)),
            <<"\t\t\t\"time\": \"" \o _printtime(tm) \o "\",\n">>)
    \o When(Truthy(BitAnd(_outputattrs, CLOG_ATTR_FILE)),
            <<"\t\t\t\"file\": \"" \o file \o "\",\n\t\t\t\"line\": "
              \o UDec(line) \o ",\n">>)
    \o When(Truthy(BitAnd(_outputattrs, CLOG_ATTR_FUNC)),
            <<"\t\t\t\"func\": \"" \o func \o "\",\n">>)
    \o <<"\t\t\t\"level\": \"" \o PrintS(_levelnames(lvl)) \o "\",\n">>
    \o <<"\t\t\t\"msg: \"">>

_vlogmsg_json_end == <<"\"\n\t\t}">>

\* _outputfuncs[fmt]: the header and the terminator of the selected renderer
_outputfuncs_header(fmt, file, line, func, lvl, tm) ==
    CASE fmt = CLOG_FORMAT_TEXT -> _vlogmsg_text_header(file, line, func, lvl, tm)
      [] fmt = CLOG_FORMAT_XML -> _vlogmsg_xml_header(file, line, func, lvl, tm)
      [] fmt = CLOG_FORMAT_CSV -> _vlogmsg_csv_header(file, line, func, lvl, tm)
      [] fmt = CLOG_FORMAT_JSON -> _vlogmsg_json_header(file, line, func, lvl, tm)

_outputfuncs_end(fmt) ==
    CASE fmt = CLOG_FORMAT_TEXT -> _vlogmsg_text_end
      [] fmt = CLOG_FORMAT_XML -> _vlogmsg_xml_end
      [] fmt = CLOG_FORMAT_CSV -> _vlogmsg_csv_end
      [] fmt = CLOG_FORMAT_JSON -> _vlogmsg_json_end

(***************************************************************************)
(* The lock hooks.  The hooks a caller installs operate one non-reentrant   *)
(* mutex: the lock hook blocks until the mutex is free and takes it, the    *)
(* unlock hook releases it if the caller holds it.                          *)
(***************************************************************************)
MutexLock == "mutex_lock"
MutexUnlock == "mutex_unlock"
UserData == {NULL, "mtx"}

\* the hook invoked with a null pointer in place of the user data
CallHook_nodata(t, f, u) ==
    /\ hooks' = Append(hooks, [by |-> t, f |-> f, u |-> NULL])
    /\ IF f = MutexLock
       THEN mutex = "none" /\ mutex' = t
       ELSE mutex' = IF mutex = t THEN "none" ELSE mutex

\* the hook f invoked by thread t with user data u
CallHook(t, f, u) ==
    /\ hooks' = Append(hooks, [by |-> t, f |-> f, u |-> u])
    /\ IF f = MutexLock
       THEN mutex = "none" /\ mutex' = t
       ELSE mutex' = IF mutex = t THEN "none" ELSE mutex

\* a mutex of the library's own operated when no hook is installed
_lock_builtin(t, i) ==
    IF _lockfuncs[i] # NULL
    THEN CallHook(t, _lockfuncs[i], _lockuserdata)
    ELSE CallHook(t, IF i = DO_LOCK THEN MutexLock ELSE MutexUnlock, NULL)

\* the two slots of _lockfuncs confused: the lock step runs the unlock hook
_lock_swapped(t, i) ==
    IF _lockfuncs[1 - i] # NULL
    THEN CallHook(t, _lockfuncs[1 - i], _lockuserdata)
    ELSE UNCHANGED <<hooks, mutex>>

_lock(t, i) ==
    IF _lockfuncs[i] # NULL
    THEN CallHook(t, _lockfuncs[i], _lockuserdata)
    ELSE UNCHANGED <<hooks, mutex>>

(***************************************************************************)
(* Initialisation and termination.                                          *)
(***************************************************************************)
\* fopen: the next FILE object, or NULL when the open fails or none is left
fopen(ok) ==
    IF ok /\ \E i \in 1 .. Len(FileHandles) : FileHandles[i] \notin opened
    THEN FileHandles[CHOOSE i \in 1 .. Len(FileHandles) :
                        /\ FileHandles[i] \notin opened
                        /\ \A j \in 1 .. i - 1 : FileHandles[j] \in opened]
    ELSE NULL

\* the call record of an initialisation: its arguments and its return value
InitCall(op, f, m, fmt, a, r) ==
    [NoCall EXCEPT !.op = op, !.f = f, !.m = m, !.ofmt = fmt, !.a = a, !.ret = r]

\* only XML refused, JSON forgotten
_init_rejects_xml(m, fmt) == m = CLOG_INIT_APPEND /\ fmt = CLOG_FORMAT_XML

\* the mode and format pairs _init refuses
_init_rejects(m, fmt) ==
    m = CLOG_INIT_APPEND /\ (fmt = CLOG_FORMAT_XML \/ fmt = CLOG_FORMAT_JSON)

\* the root-open tag of XML and the array opener of JSON left out
_init_preamble_unopened(fmt, a) ==
    CASE fmt = CLOG_FORMAT_XML ->
            << "<?xml version=\"1.0\" encoding=\"UTF-8\" standalone=\"no\"?>\n",
               "<!DOCTYPE log SYSTEM \"clog.dtd\">" >>
      [] fmt = CLOG_FORMAT_CSV -> <<"Level name", "\t", "Message content", "\n">>
      [] fmt = CLOG_FORMAT_JSON -> <<"{\n\t\"log\": ">>
      [] OTHER -> <<>>

\* what _init writes for the format: the switch on _outputfmt
_init_preamble(fmt, a) ==
    CASE fmt = CLOG_FORMAT_XML ->
            << "<?xml version=\"1.0\" encoding=\"UTF-8\" standalone=\"no\"?>\n",
               "<!DOCTYPE log SYSTEM \"clog.dtd\">",
               "<log>\n" >>
      [] fmt = CLOG_FORMAT_CSV ->
            When(Truthy(a) /\ Truthy(CLOG_ATTR_TIME), <<"Time (hh:mm:ss)", "\t">>)
            \o When(Truthy(a) /\ Truthy(CLOG_ATTR_FILE),
                    <<"File name", "\t", "Line number", "\t">>)
            \o When(Truthy(a) /\ Truthy(CLOG_ATTR_FUNC), <<"Function name", "\t">>)
            \o <<"Level name", "\t", "Message content", "\n">>
      [] fmt = CLOG_FORMAT_JSON -> <<"{\n\t\"log\": [">>
      [] OTHER -> <<>>

\* the format stored before the mode is tested: a refused call changes it
_init_format_first(t, op, f, m, fmt, a) ==
    IF _init_rejects(m, fmt)
    THEN /\ _outputfmt' = fmt
         /\ UNCHANGED <<_logfile, _initmode, _outputattrs, _json1stmsg, out>>
         /\ cur' = [cur EXCEPT ![t] = InitCall(op, f, m, fmt, a, "false")]
    ELSE /\ _logfile' = f
         /\ _initmode' = m
         /\ _outputfmt' = fmt
         /\ _json1stmsg' = IF fmt = CLOG_FORMAT_JSON THEN TRUE ELSE _json1stmsg
         /\ out' = Emit(t, f, _init_preamble(fmt, a))
         /\ _outputattrs' = a
         /\ cur' = [cur EXCEPT ![t] = InitCall(op, f, m, fmt, a, "true")]

\* the body of _init, called by thread t from the entry point op
_init(t, op, f, m, fmt, a) ==
    IF _init_rejects(m, fmt)
    THEN /\ UNCHANGED <<_logfile, _initmode, _outputfmt, _outputattrs,
                        _json1stmsg, out>>
         /\ cur' = [cur EXCEPT ![t] = InitCall(op, f, m, fmt, a, "false")]
    ELSE /\ _logfile' = f
         /\ _initmode' = m
         /\ _outputfmt' = fmt
         /\ _json1stmsg' = IF fmt = CLOG_FORMAT_JSON THEN TRUE ELSE _json1stmsg
         /\ out' = Emit(t, f, _init_preamble(fmt, a))
         /\ _outputattrs' = a
         /\ cur' = [cur EXCEPT ![t] = InitCall(op, f, m, fmt, a, "true")]

\* the result of fopen not tested: _init runs on a null stream
clog_init_file_unchecked(t, m, fmt, a, ok) ==
    /\ pc[t] = "idle"
    /\ pc' = [pc EXCEPT ![t] = "done"]
    /\ opened' = IF fopen(ok) # NULL THEN opened \cup {fopen(ok)} ELSE opened
    /\ _init(t, "clog_init_file", fopen(ok), m, fmt, a)
    /\ UNCHANGED <<_filterlevel, _lockfuncs, _lockuserdata, hooks, mutex, fclosed>>

clog_init_file(t, m, fmt, a, ok) ==
    /\ pc[t] = "idle"
    /\ pc' = [pc EXCEPT ![t] = "done"]
    /\ opened' = IF fopen(ok) # NULL THEN opened \cup {fopen(ok)} ELSE opened
    /\ IF fopen(ok) # NULL
       THEN _init(t, "clog_init_file", fopen(ok), m, fmt, a)
       ELSE /\ UNCHANGED <<_logfile, _initmode, _outputfmt, _outputattrs,
                           _json1stmsg, out>>
            /\ cur' = [cur EXCEPT ![t] =
                         InitCall("clog_init_file", NULL, m, fmt, a, "false")]
    /\ UNCHANGED <<_filterlevel, _lockfuncs, _lockuserdata, hooks, mutex, fclosed>>

clog_init(t, fmt, a) ==
    /\ pc[t] = "idle"
    /\ pc' = [pc EXCEPT ![t] = "done"]
    /\ _init(t, "clog_init", stderr, CLOG_INIT_TRUNCATE, fmt, a)
    /\ UNCHANGED <<_filterlevel, _lockfuncs, _lockuserdata, hooks, mutex,
                   opened, fclosed>>

\* the JSON array closed but not the root object
clog_term_postamble_array(fmt) ==
    CASE fmt = CLOG_FORMAT_XML -> <<"</log>\n">>
      [] fmt = CLOG_FORMAT_JSON -> <<"\n\t]\n">>
      [] OTHER -> <<>>

\* what clog_term writes for the format
clog_term_postamble(fmt) ==
    CASE fmt = CLOG_FORMAT_XML -> <<"</log>\n">>
      [] fmt = CLOG_FORMAT_JSON -> <<"\n\t]\n}\n">>
      [] OTHER -> <<>>

clog_term(t) ==
    /\ pc[t] = "idle"
    /\ Len(fclosed) < MaxClose
    /\ pc' = [pc EXCEPT ![t] = "done"]
    /\ cur' = [cur EXCEPT ![t] = [NoCall EXCEPT !.op = "clog_term"]]
    /\ out' = Emit(t, _logfile, clog_term_postamble(_outputfmt))
    /\ fclosed' = Append(fclosed, _logfile)
    /\ UNCHANGED <<dest, hooks, mutex, opened>>

(***************************************************************************)
(* Getters and setters.                                                     *)
(***************************************************************************)
clog_getlogfile == _logfile
clog_getfilterlevel == _filterlevel
clog_getfiltername == _levelnames(_filterlevel)
clog_getoutputattrs == _outputattrs
clog_getlockuserdata == _lockuserdata

\* NULL replaced by the standard error stream at once, in the setter
clog_setlogfile_eager(t, f) ==
    /\ pc[t] = "idle"
    /\ _logfile' = IF f = NULL THEN stderr ELSE f
    /\ UNCHANGED <<_initmode, _outputfmt, _outputattrs, _filterlevel, _json1stmsg,
                   _lockfuncs, _lockuserdata, pc, cur, out, hooks, mutex,
                   opened, fclosed>>

clog_setlogfile(t, f) ==
    /\ pc[t] = "idle"
    /\ _logfile' = f
    /\ UNCHANGED <<_initmode, _outputfmt, _outputattrs, _filterlevel, _json1stmsg,
                   _lockfuncs, _lockuserdata, pc, cur, out, hooks, mutex,
                   opened, fclosed>>

\* the level clamped to the range of the filter aliases
clog_setfilterlevel_clamped(t, lvl) ==
    /\ pc[t] = "idle"
    /\ _filterlevel' = IF lvl < CLOG_FILTER_ALL THEN CLOG_FILTER_ALL ELSE lvl
    /\ UNCHANGED <<_initmode, _logfile, _outputfmt, _outputattrs, _json1stmsg,
                   _lockfuncs, _lockuserdata, pc, cur, out, hooks, mutex,
                   opened, fclosed>>

clog_setfilterlevel(t, lvl) ==
    /\ pc[t] = "idle"
    /\ _filterlevel' = lvl
    /\ UNCHANGED <<_initmode, _logfile, _outputfmt, _outputattrs, _json1stmsg,
                   _lockfuncs, _lockuserdata, pc, cur, out, hooks, mutex,
                   opened, fclosed>>

clog_setoutputattrs(t, a) ==
    /\ pc[t] = "idle"
    /\ _outputattrs' = a
    /\ UNCHANGED <<_initmode, _logfile, _outputfmt, _filterlevel, _json1stmsg,
                   _lockfuncs, _lockuserdata, pc, cur, out, hooks, mutex,
                   opened, fclosed>>

clog_setlock(t, f) ==
    /\ pc[t] = "idle"
    /\ _lockfuncs' = [_lockfuncs EXCEPT ![DO_LOCK] = f]
    /\ UNCHANGED <<_initmode, _logfile, _outputfmt, _outputattrs, _filterlevel,
                   _json1stmsg, _lockuserdata, pc, cur, out, hooks, mutex,
                   opened, fclosed>>

clog_setunlock(t, f) ==
    /\ pc[t] = "idle"
    /\ _lockfuncs' = [_lockfuncs EXCEPT ![DO_UNLOCK] = f]
    /\ UNCHANGED <<_initmode, _logfile, _outputfmt, _outputattrs, _filterlevel,
                   _json1stmsg, _lockuserdata, pc, cur, out, hooks, mutex,
                   opened, fclosed>>

clog_setlockuserdata(t, u) ==
    /\ pc[t] = "idle"
    /\ _lockuserdata' = u
    /\ UNCHANGED <<_initmode, _logfile, _outputfmt, _outputattrs, _filterlevel,
                   _json1stmsg, _lockfuncs, pc, cur, out, hooks, mutex,
                   opened, fclosed>>

(***************************************************************************)
(* The dispatch.  vlogmsg is followed statement by statement, each thread   *)
(* at its own position, so that dispatches of several threads interleave.   *)
(***************************************************************************)
\* logmsg: the level-named macros capture the call site and forward here
logmsg(t, site, level, m) ==
    /\ pc[t] = "idle"
    /\ pc' = [pc EXCEPT ![t] = "lock"]
    /\ cur' = [cur EXCEPT ![t] =
                 [NoCall EXCEPT !.op = "vlogmsg", !.file = site.file,
                                !.line = site.line, !.func = site.func,
                                !.lvl = level, !.msg = m.fmt, !.fmt = m.fmt,
                                !.args = m.args]]
    /\ UNCHANGED <<dest, out, hooks, mutex, opened, fclosed>>

\* _lock(DO_LOCK)
vlogmsg_lock(t) ==
    /\ pc[t] = "lock"
    /\ _lock(t, DO_LOCK)
    /\ pc' = [pc EXCEPT ![t] = "check"]
    /\ UNCHANGED <<dest, cur, out, opened, fclosed>>

\* the filter test made strict: a message at the filter level is dropped
vlogmsg_branch_strict(lvl, fmt) ==
    IF _filterlevel < lvl
    THEN IF _msgblank(fmt) THEN "blank"
         ELSE IF Head(fmt) = "\n" THEN "newline" ELSE "header"
    ELSE "done"

\* where the dispatch goes once the stream is set: the filter test, the
\* blank test and the leading line feed test
vlogmsg_branch(lvl, fmt) ==
    IF _filterlevel <= lvl
    THEN IF _msgblank(fmt) THEN "blank"
         ELSE IF Head(fmt) = "\n" THEN "newline" ELSE "header"
    ELSE "done"

\* the default moved inside the filter test: a filtered call sets no stream
vlogmsg_check_inside(t) ==
    /\ pc[t] = "check"
    /\ _logfile' = IF _logfile = NULL /\ _filterlevel <= cur[t].lvl
                   THEN stderr ELSE _logfile
    /\ cur' = [cur EXCEPT ![t].entry = _logfile]
    /\ pc' = [pc EXCEPT ![t] = vlogmsg_branch(cur[t].lvl, cur[t].fmt)]
    /\ UNCHANGED <<_initmode, _outputfmt, _outputattrs, _filterlevel, _json1stmsg,
                   _lockfuncs, _lockuserdata, out, hooks, mutex, opened, fclosed>>

\* the lazy default of the stream, then the tests
vlogmsg_check(t) ==
    /\ pc[t] = "check"
    /\ _logfile' = IF _logfile = NULL THEN stderr ELSE _logfile
    /\ cur' = [cur EXCEPT ![t].entry = _logfile]
    /\ pc' = [pc EXCEPT ![t] = vlogmsg_branch(cur[t].lvl, cur[t].fmt)]
    /\ UNCHANGED <<_initmode, _outputfmt, _outputattrs, _filterlevel, _json1stmsg,
                   _lockfuncs, _lockuserdata, out, hooks, mutex, opened, fclosed>>

\* a blank message: fputs(fmt, _logfile), then the unlock and the return
vlogmsg_blank(t) ==
    /\ pc[t] = "blank"
    /\ out' = Emit(t, _logfile, <<CStr(cur[t].fmt)>>)
    /\ pc' = [pc EXCEPT ![t] = "unlock"]
    /\ UNCHANGED <<dest, cur, hooks, mutex, opened, fclosed>>

\* the line feed is written but the pointer is not advanced
vlogmsg_newline_kept(t) ==
    /\ pc[t] = "newline"
    /\ out' = Emit(t, _logfile, <<"\n">>)
    /\ pc' = [pc EXCEPT ![t] = "header"]
    /\ UNCHANGED <<dest, cur, hooks, mutex, opened, fclosed>>

\* a leading line feed: fputs("\n", _logfile); ++fmt
vlogmsg_newline(t) ==
    /\ pc[t] = "newline"
    /\ out' = Emit(t, _logfile, <<"\n">>)
    /\ cur' = [cur EXCEPT ![t].fmt = Tail(cur[t].fmt)]
    /\ pc' = [pc EXCEPT ![t] = "header"]
    /\ UNCHANGED <<dest, hooks, mutex, opened, fclosed>>

\* the first-message flag cleared by the renderer of every format
vlogmsg_header_flag(t, tm) ==
    /\ pc[t] = "header"
    /\ out' = Emit(t, _logfile,
                   _outputfuncs_header(_outputfmt, cur[t].file, cur[t].line,
                                       cur[t].func, cur[t].lvl, tm))
    /\ _json1stmsg' = FALSE
    /\ cur' = IF Truthy(BitAnd(_outputattrs, CLOG_ATTR_TIME))
              THEN [cur EXCEPT ![t].tm = tm] ELSE cur
    /\ pc' = [pc EXCEPT ![t] = "message"]
    /\ UNCHANGED <<_initmode, _logfile, _outputfmt, _outputattrs, _filterlevel,
                   _lockfuncs, _lockuserdata, hooks, mutex, opened, fclosed>>

\* _outputfuncs[_outputfmt](...): the writes that precede the message
vlogmsg_header(t, tm) ==
    /\ pc[t] = "header"
    /\ out' = Emit(t, _logfile,
                   _outputfuncs_header(_outputfmt, cur[t].file, cur[t].line,
                                       cur[t].func, cur[t].lvl, tm))
    /\ _json1stmsg' = IF _outputfmt = CLOG_FORMAT_JSON THEN FALSE ELSE _json1stmsg
    /\ cur' = IF Truthy(BitAnd(_outputattrs, CLOG_ATTR_TIME))
              THEN [cur EXCEPT ![t].tm = tm] ELSE cur
    /\ pc' = [pc EXCEPT ![t] = "message"]
    /\ UNCHANGED <<_initmode, _logfile, _outputfmt, _outputattrs, _filterlevel,
                   _lockfuncs, _lockuserdata, hooks, mutex, opened, fclosed>>

\* ... the message itself and the writes that follow it
vlogmsg_message(t) ==
    /\ pc[t] = "message"
    /\ out' = Emit(t, _logfile,
                   <<vfprintf(cur[t].fmt, cur[t].args)>> \o _outputfuncs_end(_outputfmt))
    /\ pc' = [pc EXCEPT ![t] = "unlock"]
    /\ UNCHANGED <<dest, cur, hooks, mutex, opened, fclosed>>

\* _lock(DO_UNLOCK)
vlogmsg_unlock(t) ==
    /\ pc[t] = "unlock"
    /\ _lock(t, DO_UNLOCK)
    /\ pc' = [pc EXCEPT ![t] = "done"]
    /\ UNCHANGED <<dest, cur, out, opened, fclosed>>

\* the call returns to its caller: what it wrote and invoked is forgotten
Return(t) ==
    /\ pc[t] = "done"
    /\ pc' = [pc EXCEPT ![t] = "idle"]
    /\ cur' = [cur EXCEPT ![t] = NoCall]
    /\ out' = Others(out, t)
    /\ hooks' = Others(hooks, t)
    /\ UNCHANGED <<dest, mutex, opened, fclosed>>

vlogmsg(t) ==
    \/ vlogmsg_lock(t)
    \/ vlogmsg_check(t)
    \/ vlogmsg_blank(t)
    \/ vlogmsg_newline(t)
    \/ \E tm \in Clock : vlogmsg_header(t, tm)
    \/ vlogmsg_message(t)
    \/ vlogmsg_unlock(t)

(***************************************************************************)
(* Specifications.                                                          *)
(***************************************************************************)
\* the attribute sets the pipeline is exercised with
SomeAttrs ==
    {CLOG_ATTR_MINIMAL, CLOG_ATTR_VERBOSE, CLOG_ATTR_TIME + CLOG_ATTR_COLORED,
     CLOG_ATTR_FILE}

\* Spec: one thread configures the destination and logs through it
Next ==
    \/ \E lvl \in LogLevel : clog_setfilterlevel(MainThread, lvl)
    \/ \E f \in {NULL, stderr, UserStream} : clog_setlogfile(MainThread, f)
    \/ \E a \in SomeAttrs : clog_setoutputattrs(MainThread, a)
    \/ \E fmt \in OutputFormat, a \in SomeAttrs : clog_init(MainThread, fmt, a)
    \/ \E site \in CallSites, lvl \in LogLevel, m \in Messages :
          logmsg(MainThread, site, lvl, m)
    \/ vlogmsg(MainThread)
    \/ Return(MainThread)

Spec == Init /\ [][Next]_vars

\* SpecInit: one thread opens, initialises, logs through and terminates
\* destinations
InitLevels == {CLOG_DEBUG, CLOG_ERROR}
InitMessages == {Msg(<<" ">>, <<>>), Msg(<<"a">>, <<>>), Msg(<<"\n", "a">>, <<>>)}

NextInit ==
    \/ \E m \in InitMode, fmt \in OutputFormat, a \in SomeAttrs, ok \in BOOLEAN :
          clog_init_file(MainThread, m, fmt, a, ok)
    \/ \E fmt \in OutputFormat, a \in SomeAttrs : clog_init(MainThread, fmt, a)
    \/ clog_term(MainThread)
    \/ \E site \in CallSites, lvl \in InitLevels, m \in InitMessages :
          logmsg(MainThread, site, lvl, m)
    \/ vlogmsg(MainThread)
    \/ Return(MainThread)

SpecInit == Init /\ [][NextInit]_vars

\* SpecLock: the hooks are installed while no dispatch is in progress, and
\* the threads log concurrently
Quiet == \A t \in Threads : pc[t] = "idle"
LockLevels == {CLOG_DEBUG, CLOG_ERROR}
LockMessages == {Msg(<<" ">>, <<>>), Msg(<<"\n", "a">>, <<>>)}

NextLock ==
    \/ Quiet /\ clog_setlock(MainThread, MutexLock)
    \/ Quiet /\ clog_setunlock(MainThread, MutexUnlock)
    \/ Quiet /\ \E u \in UserData : clog_setlockuserdata(MainThread, u)
    \/ Quiet /\ \E lvl \in LockLevels : clog_setfilterlevel(MainThread, lvl)
    \/ \E t \in Threads :
          \/ \E site \in CallSites, lvl \in LockLevels, m \in LockMessages :
                logmsg(t, site, lvl, m)
          \/ vlogmsg(t)
          \/ Return(t)

SpecLock == Init /\ [][NextLock]_vars

\* SpecMutex: the two mutex hooks are installed before the first log call,
\* and the threads log concurrently.  The scheduler is fair to every thread
\* (a step a thread can take for ever is taken) and the mutex is fair to its
\* waiters (a waiter that can take it again and again does take it).
NextMutex ==
    \/ Quiet /\ clog_setlock(MainThread, MutexLock)
    \/ Quiet /\ clog_setunlock(MainThread, MutexUnlock)
    \/ Quiet /\ \E lvl \in LockLevels : clog_setfilterlevel(MainThread, lvl)
    \/ \E t \in Threads :
          \/ /\ _lockfuncs[DO_LOCK] # NULL /\ _lockfuncs[DO_UNLOCK] # NULL
             /\ \E site \in CallSites, lvl \in LockLevels, m \in LockMessages :
                   logmsg(t, site, lvl, m)
          \/ vlogmsg(t)
          \/ Return(t)

SpecMutex ==
    /\ Init /\ [][NextMutex]_vars
    /\ \A t \in Threads :
          /\ WF_vars(vlogmsg(t) \/ Return(t))
          /\ SF_vars(vlogmsg_lock(t))

\* SpecSet: one thread stores every setting and reads it back
NextSet ==
    \/ \E lvl \in LogLevel : clog_setfilterlevel(MainThread, lvl)
    \/ \E a \in OutputAttribute : clog_setoutputattrs(MainThread, a)
    \/ \E u \in UserData : clog_setlockuserdata(MainThread, u)
    \/ \E f \in {NULL, stderr, UserStream} : clog_setlogfile(MainThread, f)
    \/ clog_setlock(MainThread, MutexLock)
    \/ clog_setunlock(MainThread, MutexUnlock)
    \/ \E fmt \in OutputFormat : clog_init(MainThread, fmt, CLOG_ATTR_MINIMAL)
    \/ Return(MainThread)

SpecSet == Init /\ [][NextSet]_vars

\* SpecText: one thread logs in plain text under every attribute set
TextMessages ==
    {Msg(<<" ">>, <<>>), Msg(<<"b", "o", "o", "m">>, <<>>), Msg(<<"\n", "a">>, <<>>)}

NextText ==
    \/ \E a \in OutputAttribute : clog_setoutputattrs(MainThread, a)
    \/ \E site \in CallSites, lvl \in LogLevel, m \in TextMessages :
          logmsg(MainThread, site, lvl, m)
    \/ vlogmsg(MainThread)
    \/ Return(MainThread)

SpecText == Init /\ [][NextText]_vars

\* SpecLife: one thread initialises destinations (some calls fail), changes
\* the settings, logs and terminates
LifeAttrs == {CLOG_ATTR_MINIMAL, CLOG_ATTR_TIME}

NextLife ==
    \/ \E m \in InitMode, fmt \in OutputFormat, a \in LifeAttrs, ok \in BOOLEAN :
          clog_init_file(MainThread, m, fmt, a, ok)
    \/ \E lvl \in InitLevels : clog_setfilterlevel(MainThread, lvl)
    \/ \E a \in LifeAttrs : clog_setoutputattrs(MainThread, a)
    \/ \E f \in {NULL, UserStream} : clog_setlogfile(MainThread, f)
    \/ clog_term(MainThread)
    \/ \E site \in CallSites, lvl \in InitLevels, m \in InitMessages :
          logmsg(MainThread, site, lvl, m)
    \/ vlogmsg(MainThread)
    \/ Return(MainThread)

SpecLife == Init /\ [][NextLife]_vars

\* SpecBlank: one thread logs every string of up to MaxBlankLen characters
\* over whitespace and the characters next to it in the character set
BlankAlphabet ==
    {"\\b", "\t", "\n", "\\v", "\f", "\r", "\\x0e", "\\x1f", " ", "!", "a"}
BlankInputs == UNION {[1 .. n -> BlankAlphabet] : n \in 0 .. MaxBlankLen}

NextBlank ==
    \/ /\ pc[MainThread] = "idle"
       /\ \E site \in CallSites, str \in BlankInputs :
             logmsg(MainThread, site, CLOG_DEBUG, Msg(str, <<>>))
    \/ vlogmsg(MainThread)
    \/ Return(MainThread)

SpecBlank == Init /\ [][NextBlank]_vars

(***************************************************************************)
(* Properties.                                                              *)
(***************************************************************************)
\* thread t has a dispatch in progress / has finished one and not yet returned
Dispatching(t) == cur[t].op = "vlogmsg"
Dispatched(t) == Dispatching(t) /\ pc[t] = "done"

\* the strings of a window, in order
Strings(w) == [i \in 1 .. Len(w) |-> w[i].s]

\* a string made only of tab, line feed, vertical tab, form feed, carriage
\* return and space
Whitespace == {"\t", "\n", "\\v", "\f", "\r", " "}
IsBlank(str) == \A i \in 1 .. Len(str) : str[i] \in Whitespace

\* C1: a dispatch at a level below the filter level writes nothing at all,
\* whatever the message (blank ones included), and a dispatch of a non-empty
\* message at a level at or above the filter level has written something by
\* the time it returns.
C1_FilterDecidesOutput ==
    \A t \in Threads :
        /\ Dispatching(t) /\ cur[t].lvl < _filterlevel => WritesOf(t) = <<>>
        /\ Dispatched(t) /\ cur[t].lvl >= _filterlevel /\ cur[t].msg # <<>>
              => Written(t) # ""

\* C1 witness: a blank, non-empty message below a raised filter level has
\* been dispatched and nothing was written.
C1_Witness ==
    /\ Dispatched(MainThread)
    /\ _filterlevel = CLOG_WARNING
    /\ cur[MainThread].lvl = CLOG_NOTICE
    /\ cur[MainThread].msg = <<"\n">>
    /\ out = <<>>

\* the hooks thread t has invoked in the call it is making, in order
HooksOf(t) == SelectSeq(hooks, LAMBDA e : e.by = t)
HookNames(t) == [i \in 1 .. Len(HooksOf(t)) |-> HooksOf(t)[i].f]
BothHooks == _lockfuncs[DO_LOCK] # NULL /\ _lockfuncs[DO_UNLOCK] # NULL

\* C2: with both hooks installed, a dispatch that is about to return has
\* invoked the lock hook once, then the unlock hook once, and nothing else,
\* whichever path it took (filtered out, blank, rendered).
C2_LockThenUnlockOnEveryPath ==
    \A t \in Threads :
        Dispatched(t) /\ BothHooks => HookNames(t) = <<MutexLock, MutexUnlock>>

\* between its lock call and its unlock call
InCritical(t) == pc[t] \in {"check", "blank", "newline", "header", "message", "unlock"}

\* the writes of each thread are contiguous in the order the stream got them
NotInterleaved ==
    \A i, j, k \in 1 .. Len(out) :
        i < j /\ j < k /\ out[i].by = out[k].by => out[j].by = out[i].by

\* C3: with both mutex hooks installed, at most one thread is between its
\* lock and its unlock call, that thread holds the mutex, and the writes of
\* one dispatch are never interleaved with the writes of another.
C3_DispatchesSerialized ==
    BothHooks =>
        /\ \A t, u \in Threads : InCritical(t) /\ InCritical(u) => t = u
        /\ \A t \in Threads : InCritical(t) => mutex = t
        /\ NotInterleaved

\* C3 witness: one thread has written its line feed and header and holds the
\* mutex, while the other waits at its lock call.
C3_Witness ==
    /\ BothHooks
    /\ pc["t1"] = "message"
    /\ Len(WritesOf("t1")) >= 2
    /\ pc["t2"] = "lock"
    /\ mutex = "t1"

\* the dispatch of thread t passed the filter
Passed(t) == cur[t].lvl >= _filterlevel

\* C4: a blank message (empty, or only whitespace) that passes the filter is
\* written to the stream byte for byte and nothing else is written, under
\* every attribute set and every output format.
C4_BlankWrittenRaw ==
    \A t \in Threads :
        Dispatched(t) /\ Passed(t) /\ IsBlank(cur[t].msg) =>
            /\ Written(t) = CStr(cur[t].msg)
            /\ \A i \in 1 .. Len(WritesOf(t)) : WritesOf(t)[i].f = _logfile

\* C4 witness: a whitespace message holding a carriage return came out raw
\* in XML with the verbose attributes.
C4_Witness ==
    /\ Dispatched(MainThread) /\ Passed(MainThread)
    /\ cur[MainThread].msg = <<"\t", "\n", "\f", "\r", " ">>
    /\ _outputfmt = CLOG_FORMAT_XML
    /\ _outputattrs = CLOG_ATTR_VERBOSE
    /\ Written(MainThread) = "\t\n\f\r "

\* the headers the active renderer can have written for the dispatch of t
\* (in JSON the separating comma is there or not)
HeadersOf(t) ==
    LET h(tm) == _outputfuncs_header(_outputfmt, cur[t].file, cur[t].line,
                                     cur[t].func, cur[t].lvl, tm)
    IN  {h(tm) : tm \in Clock}
        \cup (IF _outputfmt = CLOG_FORMAT_JSON THEN {Tail(h(tm)) : tm \in Clock} ELSE {})

\* C5: a non-blank message that starts with a line feed and passes the
\* filter is written as one bare line feed, the header, the message without
\* its first character (further line feeds stay in it), the terminator.
C5_LeadingNewline ==
    \A t \in Threads :
        Dispatched(t) /\ Passed(t) /\ ~IsBlank(cur[t].msg) /\ Head(cur[t].msg) = "\n" =>
            \E h \in HeadersOf(t) :
                Strings(WritesOf(t)) =
                    <<"\n">> \o h \o <<vfprintf(Tail(cur[t].msg), cur[t].args)>>
                    \o _outputfuncs_end(_outputfmt)

\* C5 witness: error("\n\na") in plain text with no attributes.
C5_Witness ==
    /\ Dispatched(MainThread)
    /\ cur[MainThread].msg = <<"\n", "\n", "a">>
    /\ cur[MainThread].lvl = CLOG_ERROR
    /\ _outputfmt = CLOG_FORMAT_TEXT
    /\ _outputattrs = CLOG_ATTR_MINIMAL
    /\ Written(MainThread) = "\nERROR   -- \na\n"

\* C6: the dispatch's test for an unset stream sets the stream to standard
\* error when it is unset and leaves it alone otherwise, whether or not the
\* message passes the filter; no other step of a log call, its return
\* included, changes the stream.
C6_StreamDefaultsAndPersists ==
    [][ \A t \in Threads :
          /\ Dispatching(t) /\ pc[t] = "check" =>
                _logfile' = IF _logfile = NULL THEN stderr ELSE _logfile
          /\ (Dispatching(t) /\ pc[t] # "check") \/ (pc[t] = "idle" /\ Dispatching(t)') =>
                _logfile' = _logfile ]_vars

\* C6 witness: a filtered-out call found the stream unset and left it set
\* to standard error.
C6_Witness ==
    /\ Dispatched(MainThread) /\ ~Passed(MainThread)
    /\ cur[MainThread].entry = NULL
    /\ clog_getlogfile = stderr

Initialising(t) ==
    pc[t] = "idle" /\ pc'[t] = "done" /\ cur'[t].op \in {"clog_init_file", "clog_init"}
Initialised(t) == pc[t] = "done" /\ cur[t].op \in {"clog_init_file", "clog_init"}

\* C8: an initialisation in append mode with format XML or JSON returns
\* false, changes no field of the destination state and writes nothing.
C8_AppendWrapperRejected ==
    [][ \A t \in Threads :
          Initialising(t) /\ cur'[t].m = CLOG_INIT_APPEND
            /\ cur'[t].ofmt \in {CLOG_FORMAT_XML, CLOG_FORMAT_JSON} =>
              /\ cur'[t].ret = "false"
              /\ dest' = dest
              /\ out' = out ]_vars

\* C8 witness: the first file was opened in append mode for JSON, and the
\* call returned false with the destination state as it was at the start.
C8_Witness ==
    /\ Initialised(MainThread)
    /\ cur[MainThread].f = FileHandles[1]
    /\ cur[MainThread].m = CLOG_INIT_APPEND
    /\ cur[MainThread].ofmt = CLOG_FORMAT_JSON
    /\ cur[MainThread].ret = "false"
    /\ _logfile = NULL /\ _outputfmt = CLOG_FORMAT_TEXT /\ ~_json1stmsg
    /\ out = <<>>

\* C9: when the file cannot be opened, initialize_to_file returns false,
\* changes no field of the destination state (an unset stream stays unset)
\* and writes nothing.
C9_OpenFailureLeavesState ==
    [][ \A t \in Threads :
          Initialising(t) /\ cur'[t].op = "clog_init_file" /\ cur'[t].f = NULL =>
              /\ cur'[t].ret = "false"
              /\ dest' = dest
              /\ out' = out ]_vars

\* C9 witness: a truncating XML initialisation whose open failed returned
\* false and the stream is still unset.
C9_Witness ==
    /\ Initialised(MainThread)
    /\ cur[MainThread].op = "clog_init_file"
    /\ cur[MainThread].f = NULL
    /\ cur[MainThread].m = CLOG_INIT_TRUNCATE
    /\ cur[MainThread].ofmt = CLOG_FORMAT_XML
    /\ cur[MainThread].ret = "false"
    /\ clog_getlogfile = NULL
    /\ out = <<>>

\* the preamble of each format, as the bytes of the file
XmlPreamble ==
    "<?xml version=\"1.0\" encoding=\"UTF-8\" standalone=\"no\"?>\n"
    \o "<!DOCTYPE log SYSTEM \"clog.dtd\">" \o "<log>\n"
JsonPreamble == "{\n\t\"log\": ["

\* one row: pieces that end with the only line feed
OneRow(w) ==
    /\ w # <<>>
    /\ w[Len(w)] = "\n"
    /\ \A i \in 1 .. Len(w) - 1 : w[i] # "\n"

\* C10: a successful initialisation leaves its stream, format and
\* attributes in the destination state and has written to that stream
\* exactly the preamble of the format: the XML declaration, doctype and
\* root-open tag; the JSON root object and array opener; one CSV header
\* row; nothing for TEXT.
C10_InitStoresAndWritesPreamble ==
    \A t \in Threads :
        Initialised(t) /\ cur[t].ret = "true" =>
            /\ _logfile = cur[t].f
            /\ _outputfmt = cur[t].ofmt
            /\ _outputattrs = cur[t].a
            /\ \A i \in 1 .. Len(WritesOf(t)) : WritesOf(t)[i].f = cur[t].f
            /\ cur[t].ofmt = CLOG_FORMAT_XML => Written(t) = XmlPreamble
            /\ cur[t].ofmt = CLOG_FORMAT_JSON => Written(t) = JsonPreamble
            /\ cur[t].ofmt = CLOG_FORMAT_TEXT => WritesOf(t) = <<>>
            /\ cur[t].ofmt = CLOG_FORMAT_CSV => OneRow(Strings(WritesOf(t)))

\* C10 witness: initialize_to_file in truncate mode for XML succeeded on
\* the first file and the preamble is on that file.
C10_Witness ==
    /\ Initialised(MainThread)
    /\ cur[MainThread].op = "clog_init_file"
    /\ cur[MainThread].ret = "true"
    /\ cur[MainThread].ofmt = CLOG_FORMAT_XML
    /\ _logfile = FileHandles[1]
    /\ Written(MainThread) = XmlPreamble

\* the number of tab-separated columns of a row given as its pieces
Columns(w) == Cardinality({i \in 1 .. Len(w) : w[i] = "\t"}) + 1

\* the cells of a row: its pieces without the separators
Cells(w) == SelectSeq(w, LAMBDA s : s \notin {"\t", "\n"})

\* the column titles of the attribute set a: one per enabled column
CsvTitles(a) ==
    When(BitAnd(a, CLOG_ATTR_TIME) # 0, <<"Time (hh:mm:ss)">>)
    \o When(BitAnd(a, CLOG_ATTR_FILE) # 0, <<"File name", "Line number">>)
    \o When(BitAnd(a, CLOG_ATTR_FUNC) # 0, <<"Function name">>)
    \o <<"Level name", "Message content">>

\* the record rows the CSV renderer writes under the stored attributes
CsvRows ==
    { _vlogmsg_csv_header(site.file, site.line, site.func, lvl, tm)
      \o <<"a">> \o _vlogmsg_csv_end :
        site \in CallSites, lvl \in LogLevel, tm \in Clock }

\* C11: the header row a successful CSV initialisation has written lists
\* exactly the columns its attribute set enables (time iff TIME, file and
\* line iff FILE, function iff FUNC, then level and message), and it has as
\* many tab-separated columns as every record row written under those
\* attributes.
C11_CsvHeaderListsEnabledColumns ==
    \A t \in Threads :
        Initialised(t) /\ cur[t].ret = "true" /\ cur[t].ofmt = CLOG_FORMAT_CSV =>
            /\ Cells(Strings(WritesOf(t))) = CsvTitles(cur[t].a)
            /\ \A row \in CsvRows : Columns(Strings(WritesOf(t))) = Columns(row)

\* thread t has made a termination call and not yet returned
Terminated(t) == pc[t] = "done" /\ cur[t].op = "clog_term"

\* how many times the stream f has been passed to fclose
TimesClosed(f) == Cardinality({i \in 1 .. Len(fclosed) : fclosed[i] = f})

\* the postamble of each format, as the bytes of the file
XmlPostamble == "</log>\n"
JsonPostamble == "\n\t]\n}\n"

\* C12: a termination of a destination whose stream was set and not closed
\* before has written to that stream exactly the postamble of the active
\* format (the root-close tag for XML, the array-close and the object-close
\* for JSON, nothing for CSV and TEXT), and has passed that stream to fclose.
C12_TermWritesPostamble ==
    \A t \in Threads :
        Terminated(t) /\ _logfile # NULL /\ TimesClosed(_logfile) = 1 =>
            /\ fclosed[Len(fclosed)] = _logfile
            /\ \A i \in 1 .. Len(WritesOf(t)) : WritesOf(t)[i].f = _logfile
            /\ _outputfmt = CLOG_FORMAT_XML => Written(t) = XmlPostamble
            /\ _outputfmt = CLOG_FORMAT_JSON => Written(t) = JsonPostamble
            /\ _outputfmt \in {CLOG_FORMAT_CSV, CLOG_FORMAT_TEXT} => WritesOf(t) = <<>>

\* C12 witness: a JSON log on the first file was terminated: the array and
\* the root object are closed on that file, and the file is closed.
C12_Witness ==
    /\ Terminated(MainThread)
    /\ _outputfmt = CLOG_FORMAT_JSON
    /\ _logfile = FileHandles[1]
    /\ Written(MainThread) = JsonPostamble
    /\ fclosed = <<FileHandles[1]>>

\* C13: every stream passed to fclose is a FILE object that initialize_to_file
\* opened: the standard error stream (installed by initialize_to_default or by
\* the lazy default) is never closed.
C13_TermClosesOnlyOwnFiles ==
    \A i \in 1 .. Len(fclosed) : fclosed[i] # NULL => fclosed[i] \in opened

\* the pieces written by the step
NewWrites == [i \in 1 .. Len(out') - Len(out) |-> out'[Len(out) + i].s]

\* the number of separating commas among pieces
Commas(w) == Cardinality({i \in 1 .. Len(w) : w[i] = ","})

\* thread t renders the header of a JSON record in this step
JsonHeaderStep(t) ==
    Dispatching(t) /\ pc[t] = "header" /\ pc'[t] = "message"
    /\ _outputfmt = CLOG_FORMAT_JSON

\* thread t makes a successful JSON initialisation in this step
JsonInitStep(t) ==
    Initialising(t) /\ cur'[t].ret = "true" /\ cur'[t].ofmt = CLOG_FORMAT_JSON

\* C14: a successful JSON initialisation sets the first-message flag; the
\* record rendered while the flag is set (the first since the initialisation)
\* starts with the record opener and holds no separating comma, and clears
\* the flag; a record rendered while the flag is clear starts with exactly
\* one separating comma, then the record opener; no other step (a filtered
\* call, a blank message, the line feed of a message, a setter) changes the
\* flag.
C14_JsonCommaBetweenRecords ==
    [][ /\ (\A t \in Threads : ~JsonInitStep(t) /\ ~JsonHeaderStep(t))
              => _json1stmsg' = _json1stmsg
        /\ \A t \in Threads :
          /\ JsonInitStep(t) => _json1stmsg'
          /\ JsonHeaderStep(t) /\ _json1stmsg =>
                /\ NewWrites[1] = "\n\t\t{\n"
                /\ Commas(NewWrites) = 0
                /\ ~_json1stmsg'
          /\ JsonHeaderStep(t) /\ ~_json1stmsg =>
                /\ NewWrites[1] = ","
                /\ NewWrites[2] = "\n\t\t{\n"
                /\ Commas(NewWrites) = 1
                /\ ~_json1stmsg' ]_vars

\* C14 witness: a later record of a JSON log, logged with a leading line
\* feed: the line feed, then one comma, then the record.
C14_Witness ==
    /\ Dispatched(MainThread)
    /\ _outputfmt = CLOG_FORMAT_JSON
    /\ cur[MainThread].msg = <<"\n", "a">>
    /\ Len(WritesOf(MainThread)) >= 3
    /\ Strings(WritesOf(MainThread))[1] = "\n"
    /\ Strings(WritesOf(MainThread))[2] = ","
    /\ Strings(WritesOf(MainThread))[3] = "\n\t\t{\n"
    /\ ~_json1stmsg

\* the fixed display name of each level
DisplayName(lvl) ==
    CASE lvl = CLOG_TRACE -> "TRACE"
      [] lvl = CLOG_DEBUG -> "DEBUG"
      [] lvl = CLOG_VERBOSE -> "VERBOSE"
      [] lvl = CLOG_INFO -> "INFO"
      [] lvl = CLOG_NOTICE -> "NOTICE"
      [] lvl = CLOG_WARNING -> "WARNING"
      [] lvl = CLOG_ERROR -> "ERROR"
      [] lvl = CLOG_FATAL -> "FATAL"

\* the line feeds of a string given as its characters
LineFeeds(str) == Cardinality({i \in 1 .. Len(str) : str[i] = "\n"})

\* the lines the dispatch of thread t has ended: the line feeds it wrote on
\* their own and those of the message it printed
LinesOf(t) ==
    Cardinality({i \in 1 .. Len(WritesOf(t)) : WritesOf(t)[i].s = "\n"})
    + (IF \E i \in 1 .. Len(WritesOf(t)) : WritesOf(t)[i].s \notin {"\n", ""}
       THEN LineFeeds(cur[t].fmt) ELSE 0)

\* the output of the dispatch of thread t ends, at a write boundary, in str
EndsIn(t, str) ==
    \E k \in 1 .. Len(WritesOf(t)) :
        Bytes(SubSeq(WritesOf(t), k, Len(WritesOf(t)))) = str

\* a plain-text, attribute-free log on a file opened in truncate mode
TextRoundTrip ==
    /\ _logfile \in opened /\ TimesClosed(_logfile) = 0
    /\ _initmode = CLOG_INIT_TRUNCATE
    /\ _outputfmt = CLOG_FORMAT_TEXT
    /\ _outputattrs = CLOG_ATTR_MINIMAL

\* thread t has logged a non-blank message that passed the filter
Rendered(t) == Dispatched(t) /\ Passed(t) /\ ~IsBlank(cur[t].msg)

C16_FilterNameOfEveryLevel ==
    /\ clog_getfiltername # NULL
    /\ clog_getfiltername = DisplayName(clog_getfilterlevel)

\* C17: with the filter level ALL (the initial one) in force, a non-blank
\* message logged at any level of the level set, TRACE included, has been
\* written by the time the call returns.
C17_FilterAllPassesEveryLevel ==
    \A t \in Threads :
        Dispatched(t) /\ clog_getfilterlevel = CLOG_FILTER_ALL /\ ~IsBlank(cur[t].msg)
            => Written(t) # ""

\* C18: set_filter_level(L) makes get_filter_level return L, for every level
\* L; set_lock_userdata(u) makes get_lock_userdata return u; storing an
\* attribute set makes get_output_attributes return it; and each of these
\* setters leaves every other field of the destination state (the stream,
\* the other settings, the lock hooks) as it was.
C18_SettersRoundTrip ==
    [][ /\ \A lvl \in LogLevel :
              clog_setfilterlevel(MainThread, lvl) =>
                  /\ clog_getfilterlevel' = lvl
                  /\ <<_initmode, _logfile, _outputfmt, _outputattrs, _json1stmsg,
                       _lockfuncs, _lockuserdata>>'
                     = <<_initmode, _logfile, _outputfmt, _outputattrs, _json1stmsg,
                         _lockfuncs, _lockuserdata>>
        /\ \A u \in UserData :
              clog_setlockuserdata(MainThread, u) =>
                  /\ clog_getlockuserdata' = u
                  /\ <<_initmode, _logfile, _outputfmt, _outputattrs, _filterlevel,
                       _json1stmsg, _lockfuncs>>'
                     = <<_initmode, _logfile, _outputfmt, _outputattrs, _filterlevel,
                         _json1stmsg, _lockfuncs>>
        /\ \A a \in OutputAttribute :
              clog_setoutputattrs(MainThread, a) =>
                  /\ clog_getoutputattrs' = a
                  /\ <<_initmode, _logfile, _outputfmt, _filterlevel, _json1stmsg,
                       _lockfuncs, _lockuserdata>>'
                     = <<_initmode, _logfile, _outputfmt, _filterlevel, _json1stmsg,
                         _lockfuncs, _lockuserdata>> ]_vars

\* C18 witness: the lowest level, a user data pointer and an attribute set
\* were stored on a destination whose stream and hooks the caller had set,
\* and each getter returns what was stored.
C18_Witness ==
    /\ clog_getfilterlevel = CLOG_TRACE
    /\ clog_getlockuserdata = "mtx"
    /\ clog_getoutputattrs = CLOG_ATTR_TIME + CLOG_ATTR_COLORED
    /\ clog_getlogfile = UserStream
    /\ _lockfuncs[DO_LOCK] = MutexLock /\ _lockfuncs[DO_UNLOCK] = MutexUnlock
    /\ _outputfmt = CLOG_FORMAT_CSV

\* the attribute set a has the flag set
Has(a, flag) == (a \div flag) % 2 = 1

\* the levels that have an entry in the name table and in the palette
NamedLevels == LogLevel \ {CLOG_TRACE}

\* the fixed palette: blue, cyan, green, yellow, magenta, red, bold red
Palette(lvl) ==
    CASE lvl = CLOG_DEBUG -> "34"
      [] lvl = CLOG_VERBOSE -> "36"
      [] lvl = CLOG_INFO -> "32"
      [] lvl = CLOG_NOTICE -> "33"
      [] lvl = CLOG_WARNING -> "35"
      [] lvl = CLOG_ERROR -> "31"
      [] lvl = CLOG_FATAL -> "1;31"

ColorStart(lvl) == "\\x1b[" \o Palette(lvl) \o "m"
ColorReset == "\\x1b[0m"

\* a time of day as HH:MM:SS
Pad2(n) == IF n < 10 THEN "0" \o UDec(n) ELSE UDec(n)
HourMinSec(tm) == Pad2(tm.tm_hour) \o ":" \o Pad2(tm.tm_min) \o ":" \o Pad2(tm.tm_sec)

\* the parts of the plain-text record of the dispatch of thread t, in order
TextParts(t) ==
    When(Has(_outputattrs, CLOG_ATTR_COLORED), <<ColorStart(cur[t].lvl)>>)
    \o When(Has(_outputattrs, CLOG_ATTR_TIME), <<"[" \o HourMinSec(cur[t].tm) \o "] ">>)
    \o When(Has(_outputattrs, CLOG_ATTR_FILE), <<cur[t].file \o ":" \o UDec(cur[t].line)>>)
    \o When(Has(_outputattrs, CLOG_ATTR_FILE) /\ Has(_outputattrs, CLOG_ATTR_FUNC), <<",">>)
    \o When(Has(_outputattrs, CLOG_ATTR_FILE), <<" ">>)
    \o When(Has(_outputattrs, CLOG_ATTR_FUNC), <<cur[t].func \o "() ">>)
    \o <<PadRight(DisplayName(cur[t].lvl), 7) \o " -- ">>
    \o When(Has(_outputattrs, CLOG_ATTR_COLORED), <<ColorReset>>)
    \o <<vfprintf(cur[t].fmt, cur[t].args), "\n">>

\* where a piece is among pieces (0 when it is not)
Position(w, s) == IF \E i \in 1 .. Len(w) : w[i] = s
                  THEN CHOOSE i \in 1 .. Len(w) : w[i] = s ELSE 0

ErrorBoom(t) ==
    /\ Rendered(t) /\ _outputfmt = CLOG_FORMAT_TEXT
    /\ _outputattrs = CLOG_ATTR_COLORED + CLOG_ATTR_TIME
    /\ cur[t].lvl = CLOG_ERROR
    /\ cur[t].msg = <<"b", "o", "o", "m">>

\* the piece of a plain-text record that holds the level name
LevelPiece(t) ==
    LET w == Strings(WritesOf(t))
    IN  w[Len(w) - 2 - (IF Has(_outputattrs, CLOG_ATTR_COLORED) THEN 1 ELSE 0)]

RecordOf(t) ==
    LET w == Strings(WritesOf(t))
        v == IF Head(cur[t].msg) = "\n" THEN Tail(w) ELSE w
    IN  IF _outputfmt = CLOG_FORMAT_JSON /\ v # <<>> /\ Head(v) = "," THEN Tail(v) ELSE v

\* the XML element of the dispatch of thread t: one attribute per enabled
\* field, the level attribute, the message as the content
XmlParts(t) ==
    <<"\t<message ">>
    \o When(Has(_outputattrs, CLOG_ATTR_TIME),
            <<"time=\"" \o HourMinSec(cur[t].tm) \o "\" ">>)
    \o When(Has(_outputattrs, CLOG_ATTR_FILE),
            <<"file=\"" \o cur[t].file \o "\" line=\"" \o UDec(cur[t].line) \o "\" ">>)
    \o When(Has(_outputattrs, CLOG_ATTR_FUNC), <<"func=\"" \o cur[t].func \o "\" ">>)
    \o <<"level=\"" \o DisplayName(cur[t].lvl) \o "\">">>
    \o <<vfprintf(cur[t].fmt, cur[t].args), "</message>\n">>

\* the CSV row of the dispatch of thread t: one cell per enabled field, the
\* level, the message
CsvParts(t) ==
    When(Has(_outputattrs, CLOG_ATTR_TIME), <<HourMinSec(cur[t].tm), "\t">>)
    \o When(Has(_outputattrs, CLOG_ATTR_FILE),
            <<cur[t].file, "\t", UDec(cur[t].line), "\t">>)
    \o When(Has(_outputattrs, CLOG_ATTR_FUNC), <<cur[t].func, "\t">>)
    \o <<DisplayName(cur[t].lvl), "\t">>
    \o <<vfprintf(cur[t].fmt, cur[t].args), "\n">>

\* a JSON member with a string value, and the opening of one
JsonMember(key, value) == "\t\t\t\"" \o key \o "\": \"" \o value \o "\",\n"
JsonMemberOpen(key) == "\t\t\t\"" \o key \o "\": \""

\* the JSON object of the dispatch of thread t: one member per enabled
\* field, the level member, the msg member that holds the message
JsonParts(t) ==
    <<"\n\t\t{\n">>
    \o When(Has(_outputattrs, CLOG_ATTR_TIME), <<JsonMember("time", HourMinSec(cur[t].tm))>>)
    \o When(Has(_outputattrs, CLOG_ATTR_FILE),
            <<JsonMember("file", cur[t].file) \o "\t\t\t\"line\": "
              \o UDec(cur[t].line) \o ",\n">>)
    \o When(Has(_outputattrs, CLOG_ATTR_FUNC), <<JsonMember("func", cur[t].func)>>)
    \o <<JsonMember("level", DisplayName(cur[t].lvl))>>
    \o <<JsonMemberOpen("msg"), vfprintf(cur[t].fmt, cur[t].args), "\"\n\t\t}">>

\* C21: in each of the four formats the record of a level that has a display
\* name carries a time field iff TIME is set, file and line fields iff FILE
\* is set, a function field iff FUNC is set, and always the level and the
\* message: as attributes and content of the XML element, as cells of the
\* CSV row, as the members `time`, `file`, `line`, `func`, `level` and `msg`
\* of a well-formed JSON object.
C21_RenderersAgreeOnFields ==
    \A t \in Threads :
        Rendered(t) /\ cur[t].lvl \in NamedLevels =>
            /\ _outputfmt = CLOG_FORMAT_TEXT => RecordOf(t) = TextParts(t)
            /\ _outputfmt = CLOG_FORMAT_XML => RecordOf(t) = XmlParts(t)
            /\ _outputfmt = CLOG_FORMAT_CSV => RecordOf(t) = CsvParts(t)
            /\ _outputfmt = CLOG_FORMAT_JSON => RecordOf(t) = JsonParts(t)

\* the renderer that wrote the record w, recognised by the record's frame
RendererOf(w) ==
    CASE w[1] = "\t<message " /\ w[Len(w)] = "</message>\n" -> CLOG_FORMAT_XML
      [] w[1] = "\n\t\t{\n" /\ w[Len(w)] = "\"\n\t\t}" -> CLOG_FORMAT_JSON
      [] w[Len(w)] = "\n" /\ Len(w) >= 3 /\ w[Len(w) - 2] = "\t" -> CLOG_FORMAT_CSV
      [] w[Len(w)] = "\n" /\ Len(w) >= 3
         /\ \/ w[Len(w) - 2] = ColorReset
            \/ \E lvl \in NamedLevels :
                  w[Len(w) - 2] = PadRight(DisplayName(lvl), 7) \o " -- "
            -> CLOG_FORMAT_TEXT
      [] OTHER -> "none"

\* thread t makes a successful initialisation in this step
InitStep(t) == Initialising(t) /\ cur'[t].ret = "true"

\* C22: the active output format changes only in a successful initialisation,
\* which makes it the format given (no log call, no setter, no failed or
\* refused initialisation and no termination changes it), and every record
\* rendered is written by the renderer of the active format.
C22_FormatFixedForLifetime ==
    [][ /\ _outputfmt' # _outputfmt =>
              \E t \in Threads : InitStep(t) /\ _outputfmt' = cur'[t].ofmt
        /\ \A t \in Threads :
              /\ Initialising(t) /\ cur'[t].ret = "false" => _outputfmt' = _outputfmt
              /\ Rendered(t)' => (RendererOf(RecordOf(t)) = _outputfmt)' ]_vars

\* C22 witness: an XML destination on an open file has seen a refused
\* append-mode JSON initialisation, and XML is still the active format.
C22_Witness ==
    /\ Initialised(MainThread)
    /\ cur[MainThread].ret = "false"
    /\ cur[MainThread].ofmt = CLOG_FORMAT_JSON
    /\ cur[MainThread].f # NULL
    /\ _outputfmt = CLOG_FORMAT_XML
    /\ _logfile = FileHandles[1]
    /\ TimesClosed(_logfile) = 0

\* C23: the blank test of a message is true iff the message is empty or
\* each of its characters is a space, a tab, a line feed, a vertical tab, a
\* form feed or a carriage return, wherever in the string another character
\* stands; and the dispatch takes the raw path exactly for those messages.
C23_BlankIffAllWhitespace ==
    \A t \in Threads :
        Dispatching(t) =>
            /\ _msgblank(cur[t].msg) <=> \A i \in 1 .. Len(cur[t].msg) : cur[t].msg[i] \in Whitespace
            /\ pc[t] = "blank" => \A i \in 1 .. Len(cur[t].msg) : cur[t].msg[i] \in Whitespace
            /\ pc[t] \in {"newline", "header", "message"} =>
                  \E i \in 1 .. Len(cur[t].msg) : cur[t].msg[i] \notin Whitespace

\* C23 witness: a message that starts with whitespace and ends with another
\* character is being rendered, not written raw.
C23_Witness ==
    /\ Dispatching(MainThread)
    /\ cur[MainThread].msg = <<"\\v", "\r", "\\x0e">>
    /\ pc[MainThread] = "message"

\* no lock hook and no unlock hook is installed
NoHooks == _lockfuncs[DO_LOCK] = NULL /\ _lockfuncs[DO_UNLOCK] = NULL

\* C24: while no hook is installed a dispatch invokes nothing and holds
\* nothing: no hook has been called, the mutex is free, and the next step of
\* every dispatch in progress can be taken wherever the other thread stands,
\* so that the writes of two dispatches are free to interleave.
C24_NoHooksNoExclusion ==
    NoHooks =>
        /\ hooks = <<>>
        /\ mutex = "none"
        /\ \A t \in Threads : pc[t] \notin {"idle", "done"} => ENABLED vlogmsg(t)

\* C24 witness: with no hook installed, the first thread has written its
\* header and not yet its message, and bytes of the second thread's record
\* follow that header on the same stream.
C24_Witness ==
    /\ NoHooks
    /\ pc["t1"] = "message"
    /\ \E i, j \in 1 .. Len(out) :
          /\ i < j
          /\ out[i].by = "t1" /\ out[i].s = "DEBUG   -- "
          /\ out[j].by = "t2" /\ out[j].s = "ERROR   -- "
          /\ out[i].f = out[j].f

\* C25: a dispatch's lock step invokes the installed lock hook, and its
\* unlock step the installed unlock hook, with the user data pointer stored
\* at that moment; a slot with no hook invokes nothing; a step that is no
\* step of a dispatch (a setter) invokes no hook and leaves the mutex alone;
\* and a dispatch of a non-empty message that passes the filter has written
\* by the time it returns, whichever hooks are installed.
C25_HooksGetUserData ==
    [][ \A t \in Threads :
          /\ pc[t] = "lock" /\ pc'[t] = "check" =>
                hooks' = IF _lockfuncs[DO_LOCK] # NULL
                         THEN Append(hooks, [by |-> t, f |-> _lockfuncs[DO_LOCK],
                                             u |-> clog_getlockuserdata])
                         ELSE hooks
          /\ pc[t] = "unlock" /\ pc'[t] = "done" =>
                hooks' = IF _lockfuncs[DO_UNLOCK] # NULL
                         THEN Append(hooks, [by |-> t, f |-> _lockfuncs[DO_UNLOCK],
                                             u |-> clog_getlockuserdata])
                         ELSE hooks
          /\ pc' = pc => hooks' = hooks /\ mutex' = mutex
          /\ (Dispatched(t) /\ Passed(t) /\ cur[t].msg # <<>>)' => (Written(t) # "")' ]_vars

\* C25 witness: only the lock hook is installed; a dispatch has invoked it
\* with the stored user data, skipped the missing unlock hook and written
\* its record.
C25_Witness ==
    /\ _lockfuncs[DO_LOCK] = MutexLock /\ _lockfuncs[DO_UNLOCK] = NULL
    /\ clog_getlockuserdata = "mtx"
    /\ Dispatched(MainThread) /\ Passed(MainThread)
    /\ hooks = <<[by |-> MainThread, f |-> MutexLock, u |-> "mtx"]>>
    /\ Written(MainThread) = "\nERROR   -- a\n"

\* C26: with the mutex hooks installed and a fair scheduler and mutex, every
\* log call returns: a dispatch in progress leads to its return, whatever
\* calls (filtered ones included) were made before it.
C26_EveryLogCallReturns ==
    \A t \in Threads : Dispatching(t) ~> ~Dispatching(t)

\* C27: every FILE object that initialize_to_file has opened and that has
\* not been closed is the stream of the destination state.
C27_OpenFilesAreReferenced ==
    \A f \in opened : TimesClosed(f) = 0 => _logfile = f

\* C28: once a termination has returned, the destination state does not
\* refer to a stream that was closed, and a log call never writes to a
\* stream that was closed.
C28_NoUseAfterClose ==
    /\ (\A t \in Threads : ~Terminated(t)) /\ _logfile # NULL => TimesClosed(_logfile) = 0
    /\ \A t \in Threads :
          Dispatching(t) =>
              \A i \in 1 .. Len(WritesOf(t)) : TimesClosed(WritesOf(t)[i].f) = 0

\* C29: the null pointer is never passed to fclose, no stream is passed to
\* fclose twice, and a termination of a destination that is not open (the
\* stream unset, or closed by an earlier termination) writes nothing.
C29_TermOnlyOnOpenDestination ==
    /\ \A i \in 1 .. Len(fclosed) : fclosed[i] # NULL /\ TimesClosed(fclosed[i]) = 1
    /\ \A t \in Threads :
          Terminated(t) /\ (_logfile = NULL \/ TimesClosed(_logfile) > 1)
              => WritesOf(t) = <<>>

\* thread t takes a step of a log call: the call itself, a step of its
\* dispatch, or its return
LogStep(t) == Dispatching(t) \/ (pc[t] = "idle" /\ Dispatching(t)')

\* C30: a step of a log call leaves the filter level, the output attributes,
\* the output format, the init mode, the lock hooks and the lock user data
\* unchanged; it changes the stream only from unset to standard error, and
\* the first-message flag only from true to false, in the step that renders
\* the header of a JSON record.
C30_LogCallFrame ==
    [][ \A t \in Threads :
          LogStep(t) =>
              /\ <<_filterlevel, _outputattrs, _outputfmt, _initmode, _lockfuncs,
                   _lockuserdata>>'
                 = <<_filterlevel, _outputattrs, _outputfmt, _initmode, _lockfuncs,
                     _lockuserdata>>
              /\ _logfile' # _logfile => _logfile = NULL /\ _logfile' = stderr
              /\ _json1stmsg' # _json1stmsg =>
                    /\ _json1stmsg /\ ~_json1stmsg'
                    /\ _outputfmt = CLOG_FORMAT_JSON
                    /\ pc[t] = "header" ]_vars

\* C30 witness: the first record of a JSON log was rendered on a stream that
\* the call found unset: the stream is standard error, the flag is cleared,
\* and the settings stored before the call are in place.
C30_Witness ==
    /\ Rendered(MainThread)
    /\ cur[MainThread].entry = NULL /\ _logfile = stderr
    /\ _outputfmt = CLOG_FORMAT_JSON /\ ~_json1stmsg
    /\ Strings(WritesOf(MainThread))[1] = "\n\t\t{\n"
    /\ _filterlevel = CLOG_WARNING
    /\ _outputattrs = CLOG_ATTR_FILE

====
